---- MODULE Spec2Model ----
(***************************************************************************)
(* A model of screenshot-compare (src/screenshot-compare.go): the pixel    *)
(* comparison (toNRGBA, toYUV, euclideanDistance, compareImages,           *)
(* CompareImages), the duration literals of readDurationSpecifier, and the *)
(* driver in main that races the comparison against a timer over a         *)
(* one-slot channel.                                                       *)
(*                                                                         *)
(* Numbers.  Colour channels are the uint32 values color.RGBA() returns,   *)
(* 0..0xFFFF, alpha-premultiplied.  The program computes in float64; the   *)
(* model computes in integers: a value on the channel scale (a straight    *)
(* colour, a luma, a distance) is truncated to a whole number, and a       *)
(* value on the unit scale (a pixel difference, an alpha, a score) is an   *)
(* integer count of 1/FP.  Every operation truncates toward zero, so       *)
(* -(x) and x round alike, as they do in float64.  TLC's integers are 32   *)
(* bits wide, so a product that does not fit is computed in two limbs      *)
(* (MulDiv, Sq, ISqrt).                                                    *)
(***************************************************************************)
EXTENDS Integers, Sequences, FiniteSets, TLC

\* ------------------------------------------------------------ arithmetic

\* One unit of the unit scale: 1.0 is FP.
FP == 10 * 1000

Abs(x) == IF x < 0 THEN -x ELSE x

\* The quotient a / b truncated toward zero (b > 0).
Trunc(a, b) == IF a >= 0 THEN a \div b ELSE -((-a) \div b)

\* floor(x * m / d) for 0 <= x, m < 2^16 and 0 < d, without a 32-bit overflow.
MulDiv(x, m, d) ==
    LET mh == m \div 256
        ml == m % 256
        q1 == (x * mh) \div d
        r1 == (x * mh) % d
    IN  q1 * 256 + (r1 * 256 + x * ml) \div d

\* x * x for 0 <= x < 2^17 as the two limbs <<H, L>> of H * 2^16 + L.
Sq(x) ==
    LET xh == x \div 256
        xl == x % 256
        t  == 512 * xh * xl + xl * xl
    IN  <<xh * xh + t \div 65536, t % 65536>>

Add2(p, q) ==
    LET l == p[2] + q[2]
    IN  <<p[1] + q[1] + l \div 65536, l % 65536>>

Leq2(p, q) == p[1] < q[1] \/ (p[1] = q[1] /\ p[2] <= q[2])

\* The largest s in lo..hi with s * s <= n (n in two limbs).
RECURSIVE ISqrtIn(_, _, _)
ISqrtIn(n, lo, hi) ==
    IF lo >= hi THEN lo
    ELSE LET mid == (lo + hi + 1) \div 2
         IN  IF Leq2(Sq(mid), n) THEN ISqrtIn(n, mid, hi)
                                 ELSE ISqrtIn(n, lo, mid - 1)

\* math.Sqrt of a two-limb number, truncated.
ISqrt(n) == ISqrtIn(n, 0, 131071)

\* ------------------------------------------------------------ strings

\* A Go string is the sequence of its characters.
RGB == <<"R", "G", "B">>
YUV == <<"Y", "'", "U", "V">>
KeyColors == <<"c", "o", "l", "o", "r", "s">>
KeyTimeout == <<"t", "i", "m", "e", "o", "u", "t">>
KeyWait == <<"w", "a", "i", "t">>

Digits == <<"0", "1", "2", "3", "4", "5", "6", "7", "8", "9">>
Upper == <<"A", "B", "C", "D", "E", "F", "G", "H", "I", "J", "K", "L", "M",
           "N", "O", "P", "Q", "R", "S", "T", "U", "V", "W", "X", "Y", "Z">>
Lower == <<"a", "b", "c", "d", "e", "f", "g", "h", "i", "j", "k", "l", "m",
           "n", "o", "p", "q", "r", "s", "t", "u", "v", "w", "x", "y", "z">>

IsDigit(c) == \E i \in 1..10 : Digits[i] = c
DigitVal(c) == (CHOOSE i \in 1..10 : Digits[i] = c) - 1
IsSpace(c) == c \in {" ", "\t", "\n", "\r"}

\* strings.ToLower
ToLower(str) ==
    [i \in 1..Len(str) |->
        IF \E k \in 1..26 : Upper[k] = str[i]
        THEN Lower[CHOOSE k \in 1..26 : Upper[k] = str[i]]
        ELSE str[i]]

\* strings.TrimSpace
RECURSIVE TrimLeft(_)
TrimLeft(str) ==
    IF str # <<>> /\ IsSpace(Head(str)) THEN TrimLeft(Tail(str)) ELSE str
RECURSIVE TrimRight(_)
TrimRight(str) ==
    IF str # <<>> /\ IsSpace(str[Len(str)])
    THEN TrimRight(SubSeq(str, 1, Len(str) - 1)) ELSE str
TrimSpace(str) == TrimRight(TrimLeft(str))

\* The value of a run of decimal digits.
RECURSIVE DigitsVal(_, _)
DigitsVal(str, acc) ==
    IF str = <<>> THEN acc ELSE DigitsVal(Tail(str), 10 * acc + DigitVal(Head(str)))

\* strconv.Atoi: an optional sign and at least one digit, nothing else.
Atoi(str) ==
    LET signed == str # <<>> /\ Head(str) \in {"+", "-"}
        body   == IF signed THEN Tail(str) ELSE str
    IN  IF body = <<>> \/ \E i \in 1..Len(body) : ~IsDigit(body[i])
        THEN [err |-> TRUE, val |-> 0]
        ELSE [err |-> FALSE,
              val |-> IF signed /\ Head(str) = "-" THEN -DigitsVal(body, 0)
                                                    ELSE DigitsVal(body, 0)]

\* ------------------------------------------------------------ arguments

\* time.Duration, counted in milliseconds.
Millisecond == 1
Second == 1000
Minute == 60000
Hour == 3600000

\* readDurationSpecifier: '12s' is 12 seconds; an error for anything else.
readDurationSpecifier(str) ==
    LET s0   == ToLower(TrimSpace(str))
        n    == Len(s0)
        bad  == [err |-> TRUE, dur |-> 0]
        end  == IF IsDigit(s0[n]) THEN n ELSE n - 1
        conv == Atoi(SubSeq(s0, 1, end))
        ok(d) == [err |-> FALSE, dur |-> d]
    IN  IF s0 = <<>> THEN bad
        ELSE IF conv.err THEN bad
        ELSE IF IsDigit(s0[n]) THEN ok(conv.val * Second)
        ELSE CASE s0[n] = "i" -> ok(conv.val * Millisecond)
               [] s0[n] = "s" -> ok(conv.val * Second)
               [] s0[n] = "m" -> ok(conv.val * Minute)
               [] s0[n] = "h" -> ok(conv.val * Hour)
               [] OTHER -> bad

\* Settings as main declares it: var s Settings; s.ColorSpace = "RGB".
InitialSettings ==
    [ColorSpace |-> RGB, Timeout |-> 0, Wait |-> 0, BaseImg |-> <<>>, RefImg |-> <<>>]

\* The loop of parseArguments over args[i..]; key is the pending '--key'.
RECURSIVE ParseLoop(_, _, _, _)
ParseLoop(st, args, i, key) ==
    IF i > Len(args) THEN [err |-> FALSE, s |-> st]
    ELSE LET a == args[i]
         IN  IF key # <<>> THEN
                 IF key = KeyColors THEN
                     ParseLoop([st EXCEPT !.ColorSpace = a], args, i + 1, <<>>)
                 ELSE IF key = KeyTimeout THEN
                     LET d == readDurationSpecifier(a)
                     IN  IF d.err THEN [err |-> TRUE, s |-> st]
                         ELSE ParseLoop([st EXCEPT !.Timeout = d.dur], args, i + 1, <<>>)
                 ELSE IF key = KeyWait THEN
                     LET d == readDurationSpecifier(a)
                     IN  IF d.err THEN [err |-> TRUE, s |-> st]
                         ELSE ParseLoop([st EXCEPT !.Wait = d.dur], args, i + 1, <<>>)
                 ELSE ParseLoop(st, args, i + 1, <<>>)
             ELSE IF Len(a) > 2 /\ SubSeq(a, 1, 2) = <<"-", "-">> THEN
                 LET k == ToLower(TrimSpace(SubSeq(a, 3, Len(a))))
                 IN  IF k # KeyColors /\ k # KeyWait /\ k # KeyTimeout
                     THEN [err |-> TRUE, s |-> st]
                     ELSE ParseLoop(st, args, i + 1, k)
             ELSE IF st.BaseImg = <<>> THEN
                 ParseLoop([st EXCEPT !.BaseImg = a], args, i + 1, <<>>)
             ELSE IF st.RefImg = <<>> THEN
                 ParseLoop([st EXCEPT !.RefImg = a], args, i + 1, <<>>)
             ELSE [err |-> TRUE, s |-> st]

\* parseArguments: the settings args describe, or an error.
parseArguments(st, args) ==
    LET r == ParseLoop(st, args, 1, <<>>)
    IN  IF r.err THEN r
        ELSE IF r.s.RefImg = <<>> THEN [err |-> TRUE, s |-> r.s]
        ELSE IF r.s.ColorSpace # YUV /\ r.s.ColorSpace # RGB THEN [err |-> TRUE, s |-> r.s]
        ELSE r

\* ------------------------------------------------------------ colour model

\* The BT.601 weights, in thousandths.
WR == 299
WG == 587
WB == 114
\* The chroma factors of toYUV, in thousandths.
UFactor == 492
VFactor == 877
\* The divisor of the pixel distance.
DistNorm == 113510
\* The largest channel value of color.RGBA(), 0xFFFF.
MaxChan == 65535

\* A colour as color.RGBA() returns it.
Pixel(r, g, b, a) == [r |-> r, g |-> g, b |-> b, a |-> a]

\* A bug: the channels are returned as they came, still scaled by alpha.
toNRGBAScaled(r, g, b, a) ==
    IF a = 0 THEN <<0, 0, 0, 0>> ELSE <<r, g, b, a>>

\* toNRGBA: the straight colour of a premultiplied one; black when a = 0.
toNRGBA(r, g, b, a) ==
    IF a = 0 THEN <<0, 0, 0, 0>>
    ELSE <<MulDiv(r, MaxChan, a), MulDiv(g, MaxChan, a), MulDiv(b, MaxChan, a), a>>

\* toYUV: luma and chroma of a straight colour.
toYUV(r, g, b) ==
    LET y_ == Trunc(WR * r + WG * g + WB * b, 1000)
    IN  <<y_, Trunc(UFactor * (b - y_), 1000), Trunc(VFactor * (r - y_), 1000)>>

\* A bug: the differences taken as in unsigned arithmetic, a negative one lost.
euclideanDistanceOneSided(a, x, b, y, c, z) ==
    LET pos(v) == IF v < 0 THEN 0 ELSE v
    IN  ISqrt(Add2(Add2(Sq(pos(a - x)), Sq(pos(b - y))), Sq(pos(c - z))))

euclideanDistance(a, x, b, y, c, z) ==
    ISqrt(Add2(Add2(Sq(Abs(a - x)), Sq(Abs(b - y))), Sq(Abs(c - z))))

\* ------------------------------------------------------------ images

\* An img: width w, height h and the pixels px row by row.  At is the
\* decoded image's At(x, y): the zero colour outside the bounds.
At(i, x, y) ==
    IF 0 <= x /\ x < i.w /\ 0 <= y /\ y < i.h THEN i.px[y * i.w + x + 1]
    ELSE Pixel(0, 0, 0, 0)

\* A bug: the base pixel's premultiplied channels are compared as they are.
PixelDistanceRawBase(cs, p1, p2) ==
    LET n1 == <<p1.r, p1.g, p1.b, p1.a>>
        n2 == toNRGBA(p2.r, p2.g, p2.b, p2.a)
    IN  CASE cs = RGB ->
               (euclideanDistance(n1[1], n2[1], n1[2], n2[2], n1[3], n2[3]) * FP) \div DistNorm
          [] cs = YUV ->
               LET c1 == toYUV(n1[1], n1[2], n1[3])
                   c2 == toYUV(n2[1], n2[2], n2[3])
               IN  (euclideanDistance(c1[1], c2[1], c1[2], c2[2], c1[3], c2[3]) * FP) \div DistNorm
          [] OTHER -> 0

\* The colour difference d of one pixel pair (lines 244-255), on the unit scale.
PixelDistance(cs, p1, p2) ==
    LET n1 == toNRGBA(p1.r, p1.g, p1.b, p1.a)
        n2 == toNRGBA(p2.r, p2.g, p2.b, p2.a)
    IN  CASE cs = RGB ->
               (euclideanDistance(n1[1], n2[1], n1[2], n2[2], n1[3], n2[3]) * FP) \div DistNorm
          [] cs = YUV ->
               LET c1 == toYUV(n1[1], n1[2], n1[3])
                   c2 == toYUV(n2[1], n2[2], n2[3])
               IN  (euclideanDistance(c1[1], c2[1], c1[2], c2[2], c1[3], c2[3]) * FP) \div DistNorm
          [] OTHER -> 0

\* A bug: the base image's alpha weights the difference.
PixelAlphaOfBase(p1, p2) == (toNRGBA(p1.r, p1.g, p1.b, p1.a)[4] * FP) \div MaxChan

\* alpha := a2 / 65535, of the reference pixel only (line 258).
PixelAlpha(p1, p2) == (toNRGBA(p2.r, p2.g, p2.b, p2.a)[4] * FP) \div MaxChan

\* The sentinel of a panic(alpha) in the scan.
Panicked == -1

\* The inner loop (lines 242-264) over a row from column x on: cul afterwards.
RECURSIVE ScanRow(_, _, _, _, _, _)
ScanRow(cs, baseImg, refImg, y, x, cul) ==
    IF x >= baseImg.w THEN cul
    ELSE LET p1    == At(baseImg, x, y)
             p2    == At(refImg, x, y)
             d     == PixelDistance(cs, p1, p2)
             alpha == PixelAlpha(p1, p2)
         IN  IF alpha < 0 \/ alpha > FP THEN Panicked
             ELSE ScanRow(cs, baseImg, refImg, y, x + 1, cul + (d * alpha) \div FP)

\* The outer loop (line 241) from row y to before row yEnd.
RECURSIVE ScanRows(_, _, _, _, _, _)
ScanRows(cs, baseImg, refImg, y, yEnd, cul) ==
    IF y >= yEnd \/ cul = Panicked THEN cul
    ELSE ScanRows(cs, baseImg, refImg, y + 1, yEnd,
                  ScanRow(cs, baseImg, refImg, y, 0, cul))

\* diff.roundingErrorFactor, 1.25, in hundredths.
RoundingErrorFactor == 125

\* A bug: the score returned without the clamp to 1.0.
ScoreOfUnclamped(cul, yCount, w) ==
    ((cul \div (yCount * w)) * RoundingErrorFactor) \div 100

\* Lines 267-270: the mean times roundingErrorFactor, at most 1.0.
ScoreOf(cul, yCount, w) ==
    LET sc == ((cul \div (yCount * w)) * RoundingErrorFactor) \div 100
    IN  IF sc > FP THEN FP ELSE sc

\* The zero value of difference (var diff difference).
ZeroDifference ==
    [score |-> 0, minValue |-> 0, maxValue |-> 0, roundingErrorFactor |-> 0]

\* The difference compareImages returns for an accumulated sum cul
\* (roundingErrorFactor in hundredths).
DifferenceOf(cul, yCount, w) ==
    [score |-> ScoreOf(cul, yCount, w), minValue |-> 0, maxValue |-> FP,
     roundingErrorFactor |-> RoundingErrorFactor]

\* compareImages: the difference for yCount rows from yOffset, or a panic.
compareImages(cs, baseImg, refImg, yOffset, yCount) ==
    LET cul == ScanRows(cs, baseImg, refImg, yOffset, yOffset + yCount, 0)
    IN  IF cul = Panicked THEN [panic |-> TRUE, diff |-> ZeroDifference]
        ELSE [panic |-> FALSE, diff |-> DifferenceOf(cul, yCount, baseImg.w)]

\* ------------------------------------------------------------ files

\* The zero value of img.
NoImg == [w |-> 0, h |-> 0, px |-> <<>>]

\* A file that decodes to an image, and one that does not.
ImageFile(w, h, px) == [kind |-> "image", w |-> w, h |-> h, px |-> px]
CorruptFile == [kind |-> "corrupt", w |-> 0, h |-> 0, px |-> <<>>]

\* readImageMetadata: os.Open fails for a path that names no file,
\* image.Decode for a file that is no image; else width, height and pixels.
readImageMetadata(filepath, fsys) ==
    IF filepath \notin DOMAIN fsys THEN [err |-> "open", i |-> NoImg]
    ELSE IF fsys[filepath].kind # "image" THEN [err |-> "decode", i |-> NoImg]
    ELSE [err |-> "",
          i |-> [w |-> fsys[filepath].w, h |-> fsys[filepath].h, px |-> fsys[filepath].px]]

\* A bug: only the widths are compared.
DimsDifferWidthOnly(baseImg, refImg) == baseImg.w # refImg.w

\* baseImg.w != refImg.w || baseImg.h != refImg.h
DimsDiffer(baseImg, refImg) == baseImg.w # refImg.w \/ baseImg.h # refImg.h

\* CompareImages: the score and the error it returns (1.0 with an error);
\* compared tells whether compareImages ran, diff is what it returned.
CompareImages(st, fsys) ==
    LET b == readImageMetadata(st.BaseImg, fsys)
        r == readImageMetadata(st.RefImg, fsys)
        c == compareImages(st.ColorSpace, b.i, r.i, 0, b.i.h)
        failed(e) == [score |-> FP, err |-> e, compared |-> FALSE, panic |-> FALSE,
                      diff |-> ZeroDifference]
    IN  IF b.err # "" THEN failed(b.err)
        ELSE IF r.err # "" THEN failed(r.err)
        ELSE IF DimsDiffer(b.i, r.i) THEN failed("dimensions")
        ELSE [score |-> c.diff.score, err |-> "", compared |-> TRUE, panic |-> c.panic,
              diff |-> c.diff]

\* ------------------------------------------------------------ state

VARIABLES
    args,       \* os.Args[1:]
    fs,         \* the files: path -> content
    s,          \* Settings
    mainPC,     \* where main is
    timerPC,    \* where the timer goroutine is
    workerPC,   \* where the worker goroutine is
    timeout,    \* the channel make(chan bool, 1): the values buffered
    baseImg,    \* the worker's baseImg
    refImg,     \* the worker's refImg
    y,          \* compareImages' row in the worker
    cul,        \* compareImages' running sum in the worker
    diff,       \* main's var diff difference, shared with the worker
    got,        \* the value main received from the channel
    percent,    \* main's percent
    stdout,     \* what was printed, in order
    exit,       \* the os.Exit that ended the process, or NoExit
    sent,       \* history: who sent on the channel, in order
    wokeFirst,  \* history: the timer's Sleep returned before compareImages did
    wrote,      \* history: for each write of diff, who had sent by then
    ret         \* the result of a call, or NoRet

vars == <<args, fs, s, mainPC, timerPC, workerPC, timeout, baseImg, refImg, y, cul,
          diff, got, percent, stdout, exit, sent, wokeFirst, wrote, ret>>

NoExit == [code |-> -1, site |-> "running"]
NoRet == [score |-> -1, err |-> "not called", compared |-> FALSE, panic |-> FALSE,
          diff |-> ZeroDifference]
Running == exit = NoExit

\* ------------------------------------------------------------ inputs

\* The most pixels of an image drawn as an input of CompareImages.
MaxPixels == 2

Black == Pixel(0, 0, 0, 65535)
White == Pixel(65535, 65535, 65535, 65535)
Blue == Pixel(0, 0, 65535, 65535)
\* Fully transparent.
Clear == Pixel(0, 0, 0, 0)
\* NRGBA (255, 255, 255, 128), premultiplied.
HalfWhite == Pixel(32896, 32896, 32896, 32896)

Palette == {Black, White, Blue, Clear, HalfWhite}

Shapes == {sh \in (1..MaxPixels) \X (1..MaxPixels) : sh[1] * sh[2] <= MaxPixels}
Plain(sh, p) == ImageFile(sh[1], sh[2], [i \in 1..(sh[1] * sh[2]) |-> p])

BasePath == <<"b", "a", "s", "e">>
RefPath == <<"r", "e", "f">>

\* Two files to compare: of one shape with any pixels, of two shapes, or
\* one of them corrupt or missing.
FilePair(f) ==
    \/ \E sh \in Shapes : \E pa, pb \in [1..(sh[1] * sh[2]) -> Palette] :
         f = (BasePath :> ImageFile(sh[1], sh[2], pa))
             @@ (RefPath :> ImageFile(sh[1], sh[2], pb))
    \/ \E sa, sb \in Shapes :
         /\ sa # sb
         /\ f = (BasePath :> Plain(sa, Black)) @@ (RefPath :> Plain(sb, White))
    \/ f \in {(BasePath :> CorruptFile) @@ (RefPath :> Plain(<<1, 1>>, White)),
              (BasePath :> Plain(<<1, 1>>, Black)) @@ (RefPath :> CorruptFile),
              (BasePath :> Plain(<<1, 1>>, Black)),
              (RefPath :> Plain(<<1, 1>>, Black))}

\* defaultSettings() of the tests, with the two paths and a colour space.
defaultSettings == [ColorSpace |-> RGB, Timeout |-> 0, Wait |-> 24 * Hour,
                    BaseImg |-> <<>>, RefImg |-> <<>>]

\* ------------------------------------------------------------ CompareImages, called

\* Nothing of main runs in a call of CompareImages.
MainIdle ==
    /\ args = <<>>
    /\ mainPC = "idle" /\ timerPC = "idle" /\ workerPC = "idle"
    /\ timeout = <<>> /\ baseImg = NoImg /\ refImg = NoImg /\ y = 0 /\ cul = 0
    /\ diff = ZeroDifference /\ got = FALSE /\ percent = 0 /\ stdout = <<>> /\ exit = NoExit
    /\ sent = <<>> /\ wokeFirst = FALSE /\ wrote = <<>>

InitCmp ==
    /\ MainIdle
    /\ FilePair(fs)
    /\ \E cs \in {RGB, YUV} :
         s = [defaultSettings EXCEPT !.ColorSpace = cs, !.BaseImg = BasePath,
                                     !.RefImg = RefPath]
    /\ ret = NoRet

\* diff, err := CompareImages(s)
CallCompareImages ==
    /\ ret = NoRet
    /\ ret' = CompareImages(s, fs)
    /\ UNCHANGED <<args, fs, s, mainPC, timerPC, workerPC, timeout, baseImg, refImg,
                   y, cul, diff, got, percent, stdout, exit, sent, wokeFirst, wrote>>

NextCmp == CallCompareImages

SpecCmp == InitCmp /\ [][NextCmp]_vars

\* ------------------------------------------------------------ compareImages, two bases

\* The most pixels of a base image drawn with two alpha channels.
MaxBasePixels == 1

\* Straight colours of a decoded file (color.NRGBA64), and alpha values.
StraightWhite == <<65535, 65535, 65535>>
StraightGrey == <<32768, 32768, 32768>>
StraightBlue == <<0, 0, 65535>>
StraightColors == {StraightWhite, StraightGrey, StraightBlue}
Alphas == {0, 1, MaxChan}

\* color.NRGBA64's RGBA(), which At(x, y).RGBA() calls for a decoded file
\* with an alpha channel: each channel times alpha, divided by 0xffff.
Premultiply(c, a) ==
    Pixel(MulDiv(c[1], a, MaxChan), MulDiv(c[2], a, MaxChan), MulDiv(c[3], a, MaxChan), a)

AltPath == <<"a", "l", "t">>

\* A row of n pixels.
Row(n, px) == ImageFile(n, 1, px)

\* A reference and two bases of the same straight colours, each pixel with
\* an alpha of its own in either base.
BasePairFiles(f) ==
    \E n \in 1..MaxBasePixels :
      \E c \in [1..n -> StraightColors], a, b \in [1..n -> Alphas], r \in [1..n -> Palette] :
        f = (BasePath :> Row(n, [i \in 1..n |-> Premultiply(c[i], a[i])]))
            @@ (AltPath :> Row(n, [i \in 1..n |-> Premultiply(c[i], b[i])]))
            @@ (RefPath :> Row(n, r))

InitAlpha ==
    /\ MainIdle
    /\ BasePairFiles(fs)
    /\ \E cs \in {RGB, YUV} :
         s = [defaultSettings EXCEPT !.ColorSpace = cs, !.BaseImg = BasePath,
                                     !.RefImg = RefPath]
    /\ ret = NoRet

\* The settings of the call with the other base.
AltSettings == [s EXCEPT !.BaseImg = AltPath]

\* CompareImages(s) with the one base, then with the other.
CallCompareBoth ==
    /\ ret = NoRet
    /\ ret' = [base |-> CompareImages(s, fs), alt |-> CompareImages(AltSettings, fs)]
    /\ UNCHANGED <<args, fs, s, mainPC, timerPC, workerPC, timeout, baseImg, refImg,
                   y, cul, diff, got, percent, stdout, exit, sent, wokeFirst, wrote>>

NextAlpha == CallCompareBoth

SpecAlpha == InitAlpha /\ [][NextAlpha]_vars

\* ------------------------------------------------------------ readDurationSpecifier, called

\* The longest string drawn as an input of readDurationSpecifier.
MaxLen == 3

\* The characters of those strings: digits, signs, the four units in lower
\* and one in upper case, a letter that is no unit, and white space.
DurChars == {"0", "1", "5", "-", "+", "i", "s", "m", "h", "H", "d", " "}

\* The strings over DurChars of length n.
DurStrings(n) == [1..n -> DurChars]

\* Nothing of main runs in a call of readDurationSpecifier; the string is
\* args[1].
InitDur ==
    /\ \E n \in 0..MaxLen : \E str \in DurStrings(n) : args = <<str>>
    /\ fs = <<>>
    /\ s = defaultSettings
    /\ mainPC = "idle" /\ timerPC = "idle" /\ workerPC = "idle"
    /\ timeout = <<>> /\ baseImg = NoImg /\ refImg = NoImg /\ y = 0 /\ cul = 0
    /\ diff = ZeroDifference /\ got = FALSE /\ percent = 0 /\ stdout = <<>> /\ exit = NoExit
    /\ sent = <<>> /\ wokeFirst = FALSE /\ wrote = <<>>
    /\ ret = NoRet

\* dur, err := readDurationSpecifier(teststr)
CallReadDurationSpecifier ==
    /\ ret = NoRet
    /\ ret' = readDurationSpecifier(args[1])
    /\ UNCHANGED <<args, fs, s, mainPC, timerPC, workerPC, timeout, baseImg, refImg,
                   y, cul, diff, got, percent, stdout, exit, sent, wokeFirst, wrote>>

NextDur == CallReadDurationSpecifier

SpecDur == InitDur /\ [][NextDur]_vars

\* ------------------------------------------------------------ main

\* The files of a run of the program: 1x2 images, a 1x1 and a 2x1 one, a
\* file that is no image; PathMissing names no file.
PathBlack == <<"k">>
PathWhite == <<"w">>
PathMixed == <<"m">>
PathMasked == <<"t">>
PathShort == <<"s">>
PathWide == <<"d">>
PathCorrupt == <<"x">>
PathMissing == <<"n">>

TestFiles ==
    (PathBlack :> ImageFile(1, 2, <<Black, Black>>))
    @@ (PathWhite :> ImageFile(1, 2, <<White, White>>))
    @@ (PathMixed :> ImageFile(1, 2, <<Black, White>>))
    @@ (PathMasked :> ImageFile(1, 2, <<Clear, White>>))
    @@ (PathShort :> ImageFile(1, 1, <<White>>))
    @@ (PathWide :> ImageFile(2, 1, <<White, Blue>>))
    @@ (PathCorrupt :> CorruptFile)

Paths == {PathBlack, PathWhite, PathMixed, PathMasked, PathShort, PathWide,
          PathCorrupt, PathMissing}

OptTimeout == <<"-", "-", "t", "i", "m", "e", "o", "u", "t">>
OptWait == <<"-", "-", "w", "a", "i", "t">>
OptColors == <<"-", "-", "c", "o", "l", "o", "r", "s">>

\* The options of a well-formed command line.
OptionLists ==
    { <<>>,
      <<OptTimeout, <<"1", "s">>>>,
      <<OptTimeout, <<"0">>>>,
      <<OptColors, YUV, OptTimeout, <<"5", "i">>>>,
      <<OptWait, <<"1">>, OptColors, YUV>>,
      <<OptTimeout, <<"-", "1">>>> }

\* Command lines parseArguments rejects.
BadArgLists ==
    { <<>>,
      <<PathBlack>>,
      <<PathBlack, PathWhite, PathMixed>>,
      <<<<"-", "-", "f", "a", "s", "t">>, PathBlack, PathWhite>>,
      <<OptColors, <<"C", "M", "Y", "K">>, PathBlack, PathWhite>>,
      <<OptTimeout, <<"s">>, PathBlack, PathWhite>>,
      <<OptWait, <<"1", "d">>, PathBlack, PathWhite>> }

ArgLists ==
    {o \o <<b, r>> : o \in OptionLists, b \in Paths, r \in Paths} \cup BadArgLists

\* The percentage of a NaN or infinite quotient.
NaN == -1

\* percent := float64(100*diff.score-diff.minValue) / (diff.maxValue - diff.minValue)
PercentOf(d) ==
    LET num   == 100 * d.score - d.minValue
        range == d.maxValue - d.minValue
    IN  IF range = 0 THEN NaN
        ELSE (num \div range) * FP + ((num % range) * FP) \div range

\* int(percent), as os.Exit receives it.
ExitCodeOf(p) == IF p = NaN THEN 0 ELSE p \div FP

\* The process is running: os.Exit ends main and both goroutines.
Init ==
    /\ args \in ArgLists
    /\ fs = TestFiles
    /\ s = InitialSettings
    /\ mainPC = "parse" /\ timerPC = "idle" /\ workerPC = "idle"
    /\ timeout = <<>> /\ baseImg = NoImg /\ refImg = NoImg /\ y = 0 /\ cul = 0
    /\ diff = ZeroDifference /\ got = FALSE /\ percent = 0 /\ stdout = <<>>
    /\ exit = NoExit /\ sent = <<>> /\ wokeFirst = FALSE /\ wrote = <<>>
    /\ ret = NoRet

\* Lines 297-302: parseArguments, and exit 101 when it fails.
MainParse ==
    /\ Running /\ mainPC = "parse"
    /\ LET r == parseArguments(s, args)
       IN  /\ s' = r.s
           /\ IF r.err
              THEN /\ stdout' = stdout \o <<"invalid arguments", "usage">>
                   /\ exit' = [code |-> 101, site |-> "arguments"]
                   /\ mainPC' = "exited"
              ELSE /\ mainPC' = "wait"
                   /\ UNCHANGED <<stdout, exit>>
    /\ UNCHANGED <<args, fs, timerPC, workerPC, timeout, baseImg, refImg, y, cul,
                   diff, got, percent, sent, wokeFirst, ret, wrote>>

\* Lines 304-307: time.Sleep(s.Wait) when a wait is set.
MainWait ==
    /\ Running /\ mainPC = "wait"
    /\ mainPC' = "spawn"
    /\ UNCHANGED <<args, fs, s, timerPC, workerPC, timeout, baseImg, refImg, y, cul,
                   diff, got, percent, stdout, exit, sent, wokeFirst, ret, wrote>>

\* Lines 310, 311, 318: the channel is made and the two goroutines start.
MainSpawn ==
    /\ Running /\ mainPC = "spawn"
    /\ timeout' = <<>>
    /\ timerPC' = "sleep"
    /\ workerPC' = "readBase"
    /\ mainPC' = "recv"
    /\ UNCHANGED <<args, fs, s, baseImg, refImg, y, cul, diff, got, percent, stdout,
                   exit, sent, wokeFirst, ret, wrote>>

\* A bug: main takes the first branch whatever it received.
CompletedAlways(v) == TRUE

\* The condition of line 346, if <-timeout: the value received.
Completed(v) == v

\* Line 346: <-timeout blocks until a value is buffered.
MainRecv ==
    /\ Running /\ mainPC = "recv"
    /\ timeout # <<>>
    /\ got' = Head(timeout)
    /\ timeout' = Tail(timeout)
    /\ mainPC' = IF Completed(Head(timeout)) THEN "report" ELSE "timedout"
    /\ UNCHANGED <<args, fs, s, timerPC, workerPC, baseImg, refImg, y, cul, diff,
                   percent, stdout, exit, sent, wokeFirst, ret, wrote>>

\* Lines 347-349: percent is computed from diff and printed with the runtime.
MainReport ==
    /\ Running /\ mainPC = "report"
    /\ percent' = PercentOf(diff)
    /\ stdout' = stdout \o <<"difference percentage", "runtime">>
    /\ mainPC' = "exit"
    /\ UNCHANGED <<args, fs, s, timerPC, workerPC, timeout, baseImg, refImg, y, cul,
                   diff, got, exit, sent, wokeFirst, ret, wrote>>

\* Line 351: os.Exit(int(percent)).
MainExit ==
    /\ Running /\ mainPC = "exit"
    /\ exit' = [code |-> ExitCodeOf(percent), site |-> "completed"]
    /\ mainPC' = "exited"
    /\ UNCHANGED <<args, fs, s, timerPC, workerPC, timeout, baseImg, refImg, y, cul,
                   diff, got, percent, stdout, sent, wokeFirst, ret, wrote>>

\* Line 353: the timeout is reported.
MainTimedOut ==
    /\ Running /\ mainPC = "timedout"
    /\ stdout' = Append(stdout, "program timed out")
    /\ mainPC' = "exit102"
    /\ UNCHANGED <<args, fs, s, timerPC, workerPC, timeout, baseImg, refImg, y, cul,
                   diff, got, percent, exit, sent, wokeFirst, ret, wrote>>

\* Line 354: os.Exit(102).
MainExitTimedOut ==
    /\ Running /\ mainPC = "exit102"
    /\ exit' = [code |-> 102, site |-> "timeout"]
    /\ mainPC' = "exited"
    /\ UNCHANGED <<args, fs, s, timerPC, workerPC, timeout, baseImg, refImg, y, cul,
                   diff, got, percent, stdout, sent, wokeFirst, ret, wrote>>

\* ------------------------------------------------------------ the timer goroutine

\* A bug: var timeout chan bool without make; a send on the nil channel
\* blocks forever.
CanSendNever(ch) == FALSE

\* A send on make(chan bool, 1) (line 310) goes through while the one
\* slot is free.
CanSend(ch) == Len(ch) < 1

\* The worker has left compareImages: decode, scan and score are done.
WorkerFinished == workerPC \in {"send", "done"}

\* Line 312: time.Sleep(s.Timeout) returns, at the deadline or later.
TimerWake ==
    /\ Running /\ timerPC = "sleep"
    /\ timerPC' = "woke"
    /\ wokeFirst' = (s.Timeout > 0 /\ ~WorkerFinished)
    /\ UNCHANGED <<args, fs, s, mainPC, workerPC, timeout, baseImg, refImg, y, cul,
                   diff, got, percent, stdout, exit, sent, ret, wrote>>

\* A bug: the timer signals completion.
TimerValueTrue == TRUE

\* The value the timer sends (line 314).
TimerValue == FALSE

\* A bug: the timer signals whatever the timeout is.
TimerArmedAlways(d) == TRUE

\* Line 313: the timer signals only for a positive timeout.
TimerArmed(d) == d > 0

\* Lines 313-315: timeout <- false when a timeout is set; the send blocks
\* while the one slot is taken.
TimerSignal ==
    /\ Running /\ timerPC = "woke"
    /\ IF TimerArmed(s.Timeout)
       THEN /\ CanSend(timeout)
            /\ timeout' = Append(timeout, TimerValue)
            /\ sent' = Append(sent, "timer")
       ELSE UNCHANGED <<timeout, sent>>
    /\ timerPC' = "done"
    /\ UNCHANGED <<args, fs, s, mainPC, workerPC, baseImg, refImg, y, cul, diff, got,
                   percent, stdout, exit, wokeFirst, ret, wrote>>

\* ------------------------------------------------------------ the worker goroutine

\* Lines 321-324: the base image is read; log.Fatal exits with code 1.
WorkerReadBase ==
    /\ Running /\ workerPC = "readBase"
    /\ LET r == readImageMetadata(s.BaseImg, fs)
       IN  IF r.err # ""
           THEN /\ stdout' = Append(stdout, "log: " \o r.err)
                /\ exit' = [code |-> 1, site |-> "decode"]
                /\ UNCHANGED <<workerPC, baseImg>>
           ELSE /\ baseImg' = r.i
                /\ workerPC' = "readRef"
                /\ UNCHANGED <<stdout, exit>>
    /\ UNCHANGED <<args, fs, s, mainPC, timerPC, timeout, refImg, y, cul, diff, got,
                   percent, sent, wokeFirst, ret, wrote>>

\* Lines 325-328: the reference image is read; log.Fatal exits with code 1.
WorkerReadRef ==
    /\ Running /\ workerPC = "readRef"
    /\ LET r == readImageMetadata(s.RefImg, fs)
       IN  IF r.err # ""
           THEN /\ stdout' = Append(stdout, "log: " \o r.err)
                /\ exit' = [code |-> 1, site |-> "decode"]
                /\ UNCHANGED <<workerPC, refImg>>
           ELSE /\ refImg' = r.i
                /\ workerPC' = "checkDims"
                /\ UNCHANGED <<stdout, exit>>
    /\ UNCHANGED <<args, fs, s, mainPC, timerPC, timeout, baseImg, y, cul, diff, got,
                   percent, sent, wokeFirst, ret, wrote>>

\* Lines 329-333: exit 101 when the dimensions differ; else compareImages
\* is entered (lines 235-240).
WorkerCheckDims ==
    /\ Running /\ workerPC = "checkDims"
    /\ IF DimsDiffer(baseImg, refImg)
       THEN /\ stdout' = Append(stdout, "log: image dimensions do not correspond")
            /\ exit' = [code |-> 101, site |-> "dimensions"]
            /\ UNCHANGED <<workerPC, y, cul>>
       ELSE /\ workerPC' = "scan"
            /\ y' = 0
            /\ cul' = 0
            /\ UNCHANGED <<stdout, exit>>
    /\ UNCHANGED <<args, fs, s, mainPC, timerPC, timeout, baseImg, refImg, diff, got,
                   percent, sent, wokeFirst, ret, wrote>>

\* A bug: the loop over the rows ends one row early.
ScanDoneEarly(row, yOffset, yCount) == row >= yOffset + yCount - 1

\* The loop condition of line 241, negated: no row is left.
ScanDone(row, yOffset, yCount) == row >= yOffset + yCount

\* Lines 241-265: one row of the scan; a panic ends the process with code 2.
WorkerScanRow ==
    /\ Running /\ workerPC = "scan"
    /\ ~ScanDone(y, 0, baseImg.h)
    /\ LET c == ScanRow(s.ColorSpace, baseImg, refImg, y, 0, cul)
       IN  IF c = Panicked
           THEN /\ exit' = [code |-> 2, site |-> "panic"]
                /\ UNCHANGED <<y, cul>>
           ELSE /\ cul' = c
                /\ y' = y + 1
                /\ UNCHANGED exit
    /\ UNCHANGED <<args, fs, s, mainPC, timerPC, workerPC, timeout, baseImg, refImg,
                   diff, got, percent, stdout, sent, wokeFirst, ret, wrote>>

\* A bug: diff, err := compareImages(...) declares a diff of the goroutine's
\* own; main's diff keeps its zero value.
AssignedToShadow(d) == ZeroDifference

\* diff, err = compareImages(...) of line 336: main's diff is assigned.
Assigned(d) == d

\* Lines 267-271 and 336: compareImages returns and diff is assigned.
WorkerReturn ==
    /\ Running /\ workerPC = "scan"
    /\ ScanDone(y, 0, baseImg.h)
    /\ diff' = Assigned(DifferenceOf(cul, baseImg.h, baseImg.w))
    /\ wrote' = Append(wrote, sent)
    /\ workerPC' = "send"
    /\ UNCHANGED <<args, fs, s, mainPC, timerPC, timeout, baseImg, refImg, y, cul, got,
                   percent, stdout, exit, sent, wokeFirst, ret>>

\* Line 342: timeout <- true; the send blocks while the one slot is taken.
WorkerSend ==
    /\ Running /\ workerPC = "send"
    /\ CanSend(timeout)
    /\ timeout' = Append(timeout, TRUE)
    /\ sent' = Append(sent, "worker")
    /\ workerPC' = "done"
    /\ UNCHANGED <<args, fs, s, mainPC, timerPC, baseImg, refImg, y, cul, diff, got,
                   percent, stdout, exit, wokeFirst, ret, wrote>>

Next ==
    \/ MainParse \/ MainWait \/ MainSpawn \/ MainRecv
    \/ MainReport \/ MainExit \/ MainTimedOut \/ MainExitTimedOut
    \/ TimerWake \/ TimerSignal
    \/ WorkerReadBase \/ WorkerReadRef \/ WorkerCheckDims
    \/ WorkerScanRow \/ WorkerReturn \/ WorkerSend

Spec == Init /\ [][Next]_vars

\* The steps of main and of the two goroutines.
MainStep ==
    \/ MainParse \/ MainWait \/ MainSpawn \/ MainRecv
    \/ MainReport \/ MainExit \/ MainTimedOut \/ MainExitTimedOut
TimerStep == TimerWake \/ TimerSignal
WorkerStep ==
    \/ WorkerReadBase \/ WorkerReadRef \/ WorkerCheckDims
    \/ WorkerScanRow \/ WorkerReturn \/ WorkerSend

\* Each of the three has a step to take: it is not blocked on the channel
\* and the process runs.  These are ENABLED MainStep, ENABLED TimerStep and
\* ENABLED WorkerStep, written out.
MainReady ==
    /\ Running
    /\ \/ mainPC \in {"parse", "wait", "spawn", "report", "exit", "timedout", "exit102"}
       \/ mainPC = "recv" /\ timeout # <<>>
TimerReady ==
    /\ Running
    /\ \/ timerPC = "sleep"
       \/ timerPC = "woke" /\ (TimerArmed(s.Timeout) => CanSend(timeout))
WorkerReady ==
    /\ Running
    /\ \/ workerPC \in {"readBase", "readRef", "checkDims", "scan"}
       \/ workerPC = "send" /\ CanSend(timeout)

\* A step of main moves mainPC, one of the timer timerPC, one of the worker
\* workerPC or the row y, unless it ends the process.
MainRuns ==
    MainReady /\ mainPC' \in {"wait", "spawn", "recv", "report", "exit", "timedout",
                               "exit102", "exited"}
TimerRuns == TimerReady /\ timerPC' \in {"woke", "done"}
WorkerRuns ==
    /\ WorkerReady
    /\ workerPC' \in {"readRef", "checkDims", "scan", "send", "done"}
    /\ y' \in {y, y + 1}

\* The Go scheduler runs every goroutine that can run, and time.Sleep
\* returns: none of the three waits forever while it has a step to take.
FairSpec ==
    /\ Init /\ [][Next]_vars
    /\ WF_mainPC(MainRuns) /\ WF_timerPC(TimerRuns) /\ WF_<<workerPC, y>>(WorkerRuns)

\* ------------------------------------------------------------ properties of main

Range(q) == {q[i] : i \in 1..Len(q)}

\* The arguments were parsed into s.
Parsed == mainPC # "parse"

\* What the two paths of s decode to.
BaseRead == readImageMetadata(s.BaseImg, fs)
RefRead == readImageMetadata(s.RefImg, fs)
BothDecode == BaseRead.err = "" /\ RefRead.err = ""

\* Both images decode, and differ in width or in height.
Mismatched ==
    /\ BothDecode
    /\ (BaseRead.i.w # RefRead.i.w \/ BaseRead.i.h # RefRead.i.h)

\* Both images decode to the same dimensions: there is a score to compute.
Comparable ==
    /\ BothDecode
    /\ BaseRead.i.w = RefRead.i.w /\ BaseRead.i.h = RefRead.i.h

\* The difference of the two whole images.
WholeDiff == compareImages(s.ColorSpace, BaseRead.i, RefRead.i, 0, BaseRead.i.h).diff

PercentagePrinted == "difference percentage" \in Range(stdout)
TimeoutPrinted == "program timed out" \in Range(stdout)

\* C1: with a timeout of zero the timer goroutine never sends, main never
\* takes the timed-out branch, and the process never exits with 102.
C1_ZeroTimeoutUnbounded ==
    (Parsed /\ s.Timeout = 0) =>
        /\ "timer" \notin Range(sent)
        /\ FALSE \notin Range(timeout)
        /\ mainPC \notin {"timedout", "exit102"}
        /\ ~TimeoutPrinted
        /\ exit.code # 102

\* A run with '--timeout 0' whose timer goroutine has ended and that exited
\* with the score.
C1_Witness ==
    /\ Len(args) = 4 /\ args[1] = OptTimeout /\ s.Timeout = 0
    /\ timerPC = "done"
    /\ exit.site = "completed"

\* C2 as claimed, on the runs that have a score to compute: when the
\* timer's Sleep returned before the worker left compareImages, the process
\* exits with 102.
C2_Original ==
    (~Running /\ Comparable /\ wokeFirst) => exit.code = 102

\* C2 amended: when the timer's signal is the first on the channel, no score
\* is reported; the process exits with 102, or the worker ends it first on
\* a decode failure or a dimension mismatch, which are no score either.
C2_TimerFirstTimesOut ==
    (sent # <<>> /\ sent[1] = "timer") =>
        /\ mainPC \notin {"report", "exit"}
        /\ ~PercentagePrinted
        /\ ~Running => /\ exit.site \in {"timeout", "decode", "dimensions"}
                       /\ Comparable => exit = [code |-> 102, site |-> "timeout"]

\* The timer woke and signalled first, the worker finished its score and
\* waits to send it, and the process exited with 102.
C2_Witness ==
    /\ exit.code = 102
    /\ wokeFirst /\ sent = <<"timer">>
    /\ workerPC = "send" /\ diff.score > 0

\* C3: a run that timed out printed no percentage and computed none, and
\* its exit code is 102; main reads diff, prints the percentage and exits
\* with it only after the worker sent, and diff is then the difference of
\* the two whole images.
C3_NoPartialScore ==
    /\ (exit.site = "timeout" \/ mainPC \in {"timedout", "exit102"}) =>
          /\ ~PercentagePrinted
          /\ percent = 0
          /\ exit.site = "timeout" => exit.code = 102
    /\ (mainPC \in {"report", "exit"} \/ PercentagePrinted \/ exit.site = "completed") =>
          /\ workerPC = "done"
          /\ "worker" \in Range(sent)
          /\ Comparable
          /\ diff = WholeDiff
    /\ (mainPC = "exit" \/ exit.site = "completed") => percent = PercentOf(WholeDiff)
    /\ exit.site = "completed" => exit.code = ExitCodeOf(PercentOf(WholeDiff))

\* The process exited with 102 while the scan had summed one row of two,
\* with a difference in it.
C3_Witness ==
    /\ exit.code = 102
    /\ workerPC = "scan" /\ y = 1 /\ baseImg.h = 2 /\ cul > 0
    /\ ~PercentagePrinted

\* C4 as claimed: images of different dimensions make CompareImages fail
\* without a scan, and every run end with 101.
C4_Original ==
    (Parsed /\ Mismatched) =>
        /\ CompareImages(s, fs).err # ""
        /\ ~CompareImages(s, fs).compared
        /\ ~Running => exit.code = 101

\* C4 amended: images of different dimensions make CompareImages fail
\* without a scan; the worker never scans and no score is reported; a run
\* ends with 101, or with 102 when a positive timeout's signal was taken
\* first.
C4_MismatchRejected ==
    (Parsed /\ Mismatched) =>
        /\ CompareImages(s, fs).err = "dimensions"
        /\ ~CompareImages(s, fs).compared
        /\ workerPC \notin {"scan", "send", "done"}
        /\ "worker" \notin Range(sent)
        /\ ~PercentagePrinted
        /\ ~Running =>
              \/ exit \in {[code |-> 101, site |-> "dimensions"],
                           [code |-> 101, site |-> "arguments"]}
              \/ /\ exit = [code |-> 102, site |-> "timeout"]
                 /\ s.Timeout > 0 /\ got = FALSE /\ sent = <<"timer">>

\* Two images of one width and two heights; the timer had signalled, and
\* the worker's dimension check ended the process with 101.
C4_Witness ==
    /\ Mismatched /\ BaseRead.i.w = RefRead.i.w
    /\ sent = <<"timer">>
    /\ exit = [code |-> 101, site |-> "dimensions"]

\* C5: the exit code follows the documented scheme: 0..100 only from a
\* completed comparison, as the floor of its percentage; 101 only for
\* invalid arguments or mismatched dimensions; 102 only for the timeout.
C5_ExitCodeScheme ==
    ~Running =>
        /\ exit.code \in 0..102
        /\ exit.code \in 0..100 =>
              /\ exit.site = "completed"
              /\ exit.code = (100 * WholeDiff.score) \div FP
        /\ exit.code = 101 => exit.site \in {"arguments", "dimensions"}
        /\ exit.code = 102 => (exit.site = "timeout" /\ "timer" \in Range(sent))

\* The value each goroutine sends.
SignalOf(who) == IF who = "worker" THEN TRUE ELSE TimerValue

\* The signals main has taken off the channel: those sent and not buffered.
Consumed == Len(sent) - Len(timeout)

\* main is past its receive.
Decided == mainPC \in {"report", "exit", "timedout", "exit102"}
               \/ exit.site \in {"completed", "timeout"}

\* How often a line was printed.
Count(q, line) == Cardinality({i \in 1..Len(q) : q[i] = line})

\* What main has reported.
Outcome ==
    IF PercentagePrinted THEN "completed"
    ELSE IF TimeoutPrinted THEN "timed out"
    ELSE "none"

\* The state part of C12.
FirstSignalWins ==
    /\ Len(timeout) <= 1 /\ Len(sent) <= 2 /\ Consumed \in {0, 1}
    /\ Count(sent, "timer") <= 1 /\ Count(sent, "worker") <= 1
    /\ Decided <=> Consumed = 1
    /\ Decided => got = SignalOf(sent[1])
    /\ (mainPC \in {"report", "exit"} \/ Outcome = "completed" \/ exit.site = "completed")
          => (Decided /\ sent[1] = "worker")
    /\ (mainPC \in {"timedout", "exit102"} \/ Outcome = "timed out" \/ exit.site = "timeout")
          => (Decided /\ sent[1] = "timer")
    /\ Count(stdout, "difference percentage") + Count(stdout, "program timed out") <= 1
    /\ exit.site \in {"completed", "timeout"} =>
          Count(stdout, "difference percentage") + Count(stdout, "program timed out") = 1

\* The step part of C12: the second signal changes nothing of main, and
\* what main received and reported stays as it is.
LateSignalNoOp ==
    /\ (Len(sent) = 1 /\ Len(sent') = 2) =>
          UNCHANGED <<mainPC, got, percent, stdout, exit, diff>>
    /\ Decided => got' = got
    /\ Outcome # "none" => Outcome' = Outcome

\* C12: the outcome main reports is the value of the first signal placed
\* on the channel; main takes exactly one signal and reports one outcome;
\* the second signal neither changes the outcome nor adds a report.
C12_FirstSignalWins == [] FirstSignalWins /\ [][LateSignalNoOp]_vars

\* The timer signalled first and main exited with 102; the worker's signal
\* came second and stays in the channel, unread.
C12_Witness ==
    /\ sent = <<"timer", "worker">>
    /\ timeout = <<TRUE>>
    /\ exit = [code |-> 102, site |-> "timeout"]
    /\ stdout = <<"program timed out">>

\* diff was written while the timer's signal had already been sent.
WroteAfterTimer == \E i \in 1..Len(wrote) : "timer" \in Range(wrote[i])

\* C13 as claimed: diff is written at most once and only by the task that
\* wins the race; the worker never writes it after the timer has signalled.
C13_Original ==
    /\ Len(wrote) <= 1
    /\ (wrote # <<>> /\ sent # <<>>) => sent[1] = "worker"
    /\ ~WroteAfterTimer

\* C13 amended: diff is written at most once, by the worker and with the
\* difference of the whole images, whoever wins the race; main reads it
\* only after it took the worker's signal, so a write that follows the
\* timer's signal is never read; the settings the goroutines share are not
\* written after the arguments were parsed.
C13_WrittenOnceReadByWinner ==
    /\ Len(wrote) <= 1
    /\ wrote = <<>> => (diff = ZeroDifference /\ workerPC \notin {"send", "done"})
    /\ wrote # <<>> => /\ workerPC \in {"send", "done"}
                       /\ Comparable
                       /\ diff = WholeDiff
                       /\ diff # ZeroDifference
    /\ (mainPC \in {"report", "exit"} \/ exit.site = "completed") =>
          /\ wrote # <<>>
          /\ got = TRUE /\ sent[1] = "worker"
    /\ WroteAfterTimer =>
          /\ sent[1] = "timer"
          /\ mainPC \notin {"report", "exit"}
          /\ percent = 0 /\ ~PercentagePrinted
          /\ exit.site \in {"running", "timeout"}
    /\ Parsed => (s = parseArguments(InitialSettings, args).s /\ fs = TestFiles)

\* The timer signalled, then the worker wrote its difference into diff; the
\* process exited with 102 and the difference was never read.
C13_Witness ==
    /\ wrote = <<<<"timer">>>>
    /\ diff = WholeDiff /\ diff.score > 0
    /\ exit = [code |-> 102, site |-> "timeout"]
    /\ percent = 0

\* The ways a run ends.
TerminalOutcomes == {"arguments", "decode", "dimensions", "completed", "timeout"}

\* The state part of C15: an ended run has one of the five outcomes, with
\* its exit code, and main itself ended it unless the worker did.
OneOutcome ==
    ~Running =>
        /\ exit.site \in TerminalOutcomes
        /\ exit.code \in 0..102
        /\ (exit.site \in {"arguments", "completed", "timeout"}) <=> (mainPC = "exited")
        /\ (exit.site \in {"decode", "dimensions"}) =>
              workerPC \in {"readBase", "readRef", "checkDims"}

\* C15: under fair scheduling every run ends, with exactly one of the five
\* outcomes, which then stays; main does not wait forever at its receive;
\* this with a positive timeout and with none, since the worker either
\* ends the process or sends.
C15_Terminates ==
    /\ <>(~Running)
    /\ (mainPC = "recv") ~> (mainPC # "recv" \/ ~Running)
    /\ (workerPC = "readBase") ~> (~Running \/ "worker" \in Range(sent))
    /\ []OneOutcome
    /\ [][~Running => UNCHANGED vars]_vars

\* No timeout is set and the timer goroutine has ended without a signal;
\* main waited at its receive when the worker, failing to decode, ended the
\* process.
C15_Witness ==
    /\ s.Timeout = 0 /\ timerPC = "done" /\ sent = <<>>
    /\ mainPC = "recv"
    /\ exit.site = "decode"

\* ------------------------------------------------------------ properties of the score

\* CompareImages was called and has returned.
Returned == ret # NoRet

\* The two files the call compared.
BaseFile == fs[s.BaseImg]
RefFile == fs[s.RefImg]

\* Both files are there, decode, and have the same dimensions.
SameShape ==
    /\ s.BaseImg \in DOMAIN fs /\ s.RefImg \in DOMAIN fs
    /\ BaseFile.kind = "image" /\ RefFile.kind = "image"
    /\ BaseFile.w = RefFile.w /\ BaseFile.h = RefFile.h

PixelsOf(f) == 1..Len(f.px)
Opaque(f) == \A i \in PixelsOf(f) : f.px[i].a = MaxChan
AllOf(f, p) == \A i \in PixelsOf(f) : f.px[i] = p

\* The call with base and reference swapped.
Swapped == [s EXCEPT !.BaseImg = s.RefImg, !.RefImg = s.BaseImg]

C7_BlackWhiteMaximal ==
    (Returned /\ SameShape /\ AllOf(BaseFile, Black) /\ AllOf(RefFile, White)) =>
        /\ ret.err = ""
        /\ 10 * ret.score > 9 * FP

\* C8: an image compared with itself scores 0, without an error.
C8_SelfCompareZero ==
    (Returned /\ SameShape /\ BaseFile = RefFile) =>
        /\ ret.err = ""
        /\ ret.score = 0

\* An image with a half-transparent and a blue pixel, compared with itself.
C8_Witness ==
    /\ Returned /\ SameShape /\ BaseFile = RefFile
    /\ HalfWhite \in Range(BaseFile.px) /\ Blue \in Range(BaseFile.px)
    /\ ret.score = 0

\* The reference pixel i is fully transparent.
Masked(i) == RefFile.px[i].a = 0

C10_Original ==
    (Returned /\ SameShape /\ Opaque(RefFile)) =>
        ret.score = CompareImages(Swapped, fs).score

\* C10 amended: with an opaque base and an opaque reference, swapping them
\* leaves the score as it is.
C10_SymmetricWhenOpaque ==
    (Returned /\ SameShape /\ Opaque(BaseFile) /\ Opaque(RefFile)) =>
        ret.score = CompareImages(Swapped, fs).score

\* Two different opaque images, compared in Y'UV, with a score between 0
\* and 1 that is the score of the swapped call as well.
C10_Witness ==
    /\ Returned /\ SameShape /\ Opaque(BaseFile) /\ Opaque(RefFile)
    /\ Blue \in Range(BaseFile.px) /\ White \in Range(RefFile.px)
    /\ s.ColorSpace = YUV
    /\ 0 < ret.score /\ ret.score < FP
    /\ ret.score = CompareImages(Swapped, fs).score

\* ------------------------------------------------------------ properties of the duration literal

\* The literal as readDurationSpecifier reads it: trimmed, in lower case.
Literal == ToLower(TrimSpace(args[1]))

AllDigits(str) == str # <<>> /\ \A i \in 1..Len(str) : IsDigit(str[i])

\* The unit a suffix names, or 0 for a character that is no unit.
UnitOf(c) ==
    CASE c = "i" -> Millisecond
      [] c = "s" -> Second
      [] c = "m" -> Minute
      [] c = "h" -> Hour
      [] OTHER -> 0

\* An unsigned decimal integer, optionally followed by one unit suffix.
Unsuffixed == AllDigits(Literal)
Suffixed ==
    /\ Len(Literal) >= 2
    /\ UnitOf(Literal[Len(Literal)]) # 0
    /\ AllDigits(SubSeq(Literal, 1, Len(Literal) - 1))

\* The duration such a literal stands for.
LiteralValue ==
    IF Unsuffixed THEN DigitsVal(Literal, 0) * Second
    ELSE DigitsVal(SubSeq(Literal, 1, Len(Literal) - 1), 0) * UnitOf(Literal[Len(Literal)])

\* C11: readDurationSpecifier accepts exactly the unsigned decimal integers
\* with an optional unit suffix i, s, m or h, with the value times the unit
\* (seconds without a suffix); every other string, a signed number among
\* them, is an error with the zero duration.
C11_UnsignedLiteralsOnly ==
    Returned =>
        IF Unsuffixed \/ Suffixed
        THEN ret = [err |-> FALSE, dur |-> LiteralValue]
        ELSE ret = [err |-> TRUE, dur |-> 0]

\* ------------------------------------------------------------ properties of the base alpha

AltFile == fs[AltPath]

\* p and q are one straight colour under two alpha values.
SameStraight(p, q) ==
    \E c \in StraightColors, a, b \in Alphas :
        p = Premultiply(c, a) /\ q = Premultiply(c, b)

\* Premultiplying c by a loses nothing: dividing by a gives c back.
Exact(c, a) ==
    /\ a > 0
    /\ \A k \in 1..3 : MulDiv(MulDiv(c[k], a, MaxChan), MaxChan, a) = c[k]

\* As SameStraight, and neither premultiplication lost anything.
SameStraightExact(p, q) ==
    \E c \in StraightColors, a, b \in Alphas :
        /\ p = Premultiply(c, a) /\ q = Premultiply(c, b)
        /\ Exact(c, a) /\ Exact(c, b)

\* The file with opaque black where it is fully transparent.
Blackened(f) ==
    [f EXCEPT !.px = [i \in PixelsOf(f) |-> IF f.px[i].a = 0 THEN Black ELSE f.px[i]]]

\* The score of the base file f against the reference.
ScoreWithBase(f) == CompareImages(s, (BasePath :> f) @@ fs).score

\* C14 as claimed: two bases of the same straight colours, whatever their
\* alpha values, score the same against any reference.
C14_Original ==
    (Returned /\ \A i \in PixelsOf(BaseFile) : SameStraight(BaseFile.px[i], AltFile.px[i])) =>
        ret.base.score = ret.alt.score

\* C14 amended: two bases of the same straight colours score the same
\* when no pixel's premultiplication by its alpha lost anything; a base
\* pixel of alpha 0 is compared as black.
C14_BaseAlphaExactOrBlack ==
    Returned =>
        /\ ret.base.err = "" /\ ret.alt.err = ""
        /\ (\A i \in PixelsOf(BaseFile) : SameStraightExact(BaseFile.px[i], AltFile.px[i]))
              => ret.base.score = ret.alt.score
        /\ ret.base.score = ScoreWithBase(Blackened(BaseFile))
        /\ ret.alt.score = ScoreWithBase(Blackened(AltFile))

\* White with alpha 1 and opaque white, against blue in Y'UV: one score,
\* between 0 and 1.
C14_Witness ==
    /\ Returned
    /\ Premultiply(StraightWhite, 1) \in Range(BaseFile.px)
    /\ AllOf(AltFile, White) /\ AllOf(RefFile, Blue)
    /\ s.ColorSpace = YUV
    /\ 0 < ret.base.score /\ ret.base.score < FP
    /\ ret.base.score = ret.alt.score

====
